---- MODULE Spec2Model ----
(***************************************************************************)
(* Model of translate_po.py: translate_po_file(filepath).                  *)
(*                                                                         *)
(* The catalog is a sequence of entries; an entry is a record              *)
(*   [msgid, msgstr, flags, occurrences]                                   *)
(* where flags is a list of strings and occurrences a list of              *)
(* <<filename, line_num_str>> pairs.  File names are sequences of          *)
(* characters so that filename.lower() and the substring test of line 38   *)
(* are computed, not assumed.  Python lists of entry objects               *)
(* (potentially_translatable, entries_to_translate) hold references, which *)
(* are modelled as indices into po.                                        *)
(*                                                                         *)
(* The exceptions modelled are those of class Exception raised by the      *)
(* calls the function makes (polib.pofile, translator.translate, po.save). *)
(***************************************************************************)
EXTENDS Integers, Sequences, FiniteSets, TLC

VARIABLES
    pc,                      \* position in translate_po_file
    disk,                    \* the catalog stored in the file at filepath
    po,                      \* the in-memory catalog (polib.pofile result)
    loaded,                  \* ghost: the catalog as it was when loaded
    potentially_translatable,\* line 29
    fi,                      \* position of the filter loop (line 32), 1-based
    entries_to_translate,    \* line 26 / 54
    ti,                      \* position of the translation loop (line 58), 1-based
    translated_count,        \* line 24
    skipped_count,           \* line 25
    calls,                   \* ghost: entries passed to translator.translate, in order
    results,                 \* ghost: outcome of each call, parallel to calls
    delays,                  \* ghost: number of time.sleep(0.5) executed
    saves,                   \* ghost: number of po.save() calls made
    reported,                \* which error handler ran: "none", "notfound", "unexpected", "escaped"
    printed_skipped          \* the total printed by line 89, NotPrinted when line 89 did not run

vars == <<pc, disk, po, loaded, potentially_translatable, fi, entries_to_translate, ti,
          translated_count, skipped_count, calls, results, delays, saves, reported,
          printed_skipped>>

-----------------------------------------------------------------------------
(* Bounds and input sets *)

MaxEntries == 3

NotPrinted == 0 - 1

\* file names, as character sequences
FMain    == <<"m", "a", "i", "n">>
FReport  == <<"R", "e", "p", "o", "r", "t">>
FReports == <<"a", "/", "r", "e", "p", "o", "r", "t", "s">>
FRepot   == <<"r", "e", "p", "o", "t">>

OccurrenceLists ==
    { <<>>,
      << <<FMain, "3">> >>,
      << <<FRepot, "7">>, <<FReport, "12">> >>,
      << <<FReports, "5">>, <<FMain, "9">> >> }

FlagLists == { <<>>, <<"python-format", "fuzzy">>, <<"python-format">> }

\* entries a .po file can hold: untranslated ones in every combination of
\* flags and occurrences
Untranslated ==
    [msgid : {"a"}, msgstr : {""}, flags : FlagLists, occurrences : OccurrenceLists]

\* entries that already carry a translation
Translated ==
    { [msgid |-> "a", msgstr |-> "old", flags |-> <<>>, occurrences |-> <<>>],
      [msgid |-> "a", msgstr |-> "old", flags |-> <<"fuzzy">>,
       occurrences |-> << <<FReports, "5">>, <<FMain, "9">> >>] }

\* header-like entries: empty msgid
Headers ==
    { [msgid |-> "", msgstr |-> "", flags |-> <<>>, occurrences |-> <<>>],
      [msgid |-> "", msgstr |-> "old", flags |-> <<"fuzzy">>, occurrences |-> <<>>] }

EntryPool == Untranslated \cup Translated \cup Headers

Catalogs == UNION { [1..n -> EntryPool] : n \in 0..MaxEntries }

\* what translator.translate can do on one call (lines 64-65, 74)
Outcomes == {"text", "emptytext", "none", "raise"}

\* exceptions of class Exception that polib.pofile / po.save can raise
LoadErrors == {"FileNotFoundError", "OSError"}

-----------------------------------------------------------------------------
(* Pure helpers, computed as the code computes them *)

\* str.lower() on one character
Lower(c) ==
    CASE c = "R" -> "r"
      [] c = "E" -> "e"
      [] c = "P" -> "p"
      [] c = "O" -> "o"
      [] c = "T" -> "t"
      [] OTHER   -> c

\* filename.lower()
LowerStr(s) == [i \in 1..Len(s) |-> Lower(s[i])]

Needle == <<"r", "e", "p", "o", "r", "t">>

\* Python's  needle in s
Contains(needle, s) ==
    \E i \in 0..(Len(s) - Len(needle)) : SubSeq(s, i + 1, i + Len(needle)) = needle

\* the inner loop of lines 37-41: scan from occurrence k, stop at the first hit
RECURSIVE ScanOccurrences(_, _)
ScanOccurrences(occ, k) ==
    IF k > Len(occ) THEN FALSE
    ELSE IF Contains(Needle, LowerStr(occ[k][1])) THEN TRUE
    ELSE ScanOccurrences(occ, k + 1)

\* a plausible slip: the test without .lower()
RECURSIVE ScanOccurrencesCaseSensitive(_, _)
ScanOccurrencesCaseSensitive(occ, k) ==
    IF k > Len(occ) THEN FALSE
    ELSE IF Contains(Needle, occ[k][1]) THEN TRUE
    ELSE ScanOccurrencesCaseSensitive(occ, k + 1)

HasReportCaseSensitive(entry) ==
    entry.occurrences # <<>> /\ ScanOccurrencesCaseSensitive(entry.occurrences, 1)

\* a plausible slip: only the first occurrence is looked at
HasReportFirstOnly(entry) ==
    entry.occurrences # <<>> /\ Contains(Needle, LowerStr(entry.occurrences[1][1]))

\* lines 36-41: skip_entry after the occurrence scan
HasReport(entry) ==
    entry.occurrences # <<>> /\ ScanOccurrences(entry.occurrences, 1)

\* a plausible slip: only the first flag is compared
IsFuzzyFirstOnly(entry) ==
    entry.flags # <<>> /\ entry.flags[1] = "fuzzy"

\* a plausible slip: the flag is spelled differently ('Fuzzy'), so it never matches
IsFuzzyNever(entry) == FALSE

\* lines 48 and 68:  'fuzzy' in entry.flags
IsFuzzy(entry) ==
    \E k \in 1..Len(entry.flags) : entry.flags[k] = "fuzzy"

\* list.remove(x): drop the first element equal to x
RemoveFirst(s, x) ==
    LET k == CHOOSE j \in 1..Len(s) : s[j] = x /\ \A m \in 1..(j - 1) : s[m] # x
    IN  SubSeq(s, 1, k - 1) \o SubSeq(s, k + 1, Len(s))

\* plausible slips in the pre-filter
PreFilterIgnoresMsgstr(entry) == entry.msgid # ""
PreFilterIgnoresMsgid(entry) == entry.msgstr = ""

\* line 29:  not entry.msgstr and entry.msgid
PreFilter(entry) == entry.msgstr = "" /\ entry.msgid # ""

\* line 29: the list comprehension, as the list of references kept
PotentiallyTranslatable(cat) ==
    SelectSeq([i \in 1..Len(cat) |-> i], LAMBDA i : PreFilter(cat[i]))

\* a plausible slip: the save is not guarded
SaveNeededAlways(count) == TRUE

\* line 79
SaveNeeded(count) == count > 0

\* a plausible slip: the generic handler of line 94 is missing
OuterHandlerOnlyNotFound(exc) ==
    IF exc = "FileNotFoundError" THEN "notfound" ELSE "escaped"

\* lines 92-95: which except clause of the outer try takes the exception
OuterHandler(exc) ==
    IF exc = "FileNotFoundError" THEN "notfound" ELSE "unexpected"

\* the "Optional: break" variant of line 76
AfterFailureBreak(i, n) == n + 1

\* lines 73 and 77: after a failed call the loop goes to the next entry
AfterFailure(i, n) == i + 1

\* lines 66-69: the entry after a successful translation
TranslatedEntry(entry, text) ==
    [entry EXCEPT !.msgstr = text,
                  !.flags  = IF IsFuzzy(entry) THEN RemoveFirst(entry.flags, "fuzzy")
                             ELSE entry.flags]

-----------------------------------------------------------------------------
(* The state machine *)

Init ==
    /\ pc = "start"
    /\ disk \in Catalogs
    /\ po = <<>>
    /\ loaded = <<>>
    /\ potentially_translatable = <<>>
    /\ fi = 1
    /\ entries_to_translate = <<>>
    /\ ti = 1
    /\ translated_count = 0
    /\ skipped_count = 0
    /\ calls = <<>>
    /\ results = <<>>
    /\ delays = 0
    /\ saves = 0
    /\ reported = "none"
    /\ printed_skipped = NotPrinted

\* lines 17-30: the file loads
LoadOk ==
    /\ pc = "start"
    /\ po' = disk
    /\ loaded' = disk
    /\ potentially_translatable' = PotentiallyTranslatable(disk)
    /\ pc' = "filter"
    /\ UNCHANGED <<disk, fi, entries_to_translate, ti, translated_count, skipped_count,
                   calls, results, delays, saves, reported, printed_skipped>>

\* line 17 raises; lines 92-95 take it
LoadFail ==
    /\ pc = "start"
    /\ \E exc \in LoadErrors : reported' = OuterHandler(exc)
    /\ pc' = "done"
    /\ UNCHANGED <<disk, po, loaded, potentially_translatable, fi, entries_to_translate, ti,
                   translated_count, skipped_count, calls, results, delays, saves,
                   printed_skipped>>

\* lines 32-54: one iteration of the filter loop
FilterStep ==
    /\ pc = "filter"
    /\ fi <= Len(potentially_translatable)
    /\ LET ref   == potentially_translatable[fi]
           entry == po[ref]
       IN  IF HasReport(entry) \/ IsFuzzy(entry)
           THEN /\ skipped_count' = skipped_count + 1
                /\ UNCHANGED entries_to_translate
           ELSE /\ entries_to_translate' = Append(entries_to_translate, ref)
                /\ UNCHANGED skipped_count
    /\ fi' = fi + 1
    /\ UNCHANGED <<pc, disk, po, loaded, potentially_translatable, ti, translated_count,
                   calls, results, delays, saves, reported, printed_skipped>>

\* line 56: the filter loop is over
FilterEnd ==
    /\ pc = "filter"
    /\ fi > Len(potentially_translatable)
    /\ pc' = "translate"
    /\ UNCHANGED <<disk, po, loaded, potentially_translatable, fi, entries_to_translate, ti,
                   translated_count, skipped_count, calls, results, delays, saves, reported,
                   printed_skipped>>

\* lines 58-77: one iteration of the translation loop
TranslateStep ==
    /\ pc = "translate"
    /\ ti <= Len(entries_to_translate)
    /\ LET ref == entries_to_translate[ti]
       IN  /\ delays' = delays + 1
           /\ calls' = Append(calls, ref)
           /\ \E out \in Outcomes :
                /\ results' = Append(results, out)
                /\ IF out = "text"
                   THEN /\ po' = [po EXCEPT ![ref] = TranslatedEntry(po[ref], "ar")]
                        /\ translated_count' = translated_count + 1
                        /\ ti' = ti + 1
                   ELSE /\ ti' = AfterFailure(ti, Len(entries_to_translate))
                        /\ UNCHANGED <<po, translated_count>>
    /\ UNCHANGED <<pc, disk, loaded, potentially_translatable, fi, entries_to_translate,
                   skipped_count, saves, reported, printed_skipped>>

\* lines 79-90 with the handler of lines 94-95: save when something was translated,
\* then print the skipped total
Finish ==
    /\ pc = "translate"
    /\ ti > Len(entries_to_translate)
    /\ pc' = "done"
    /\ IF SaveNeeded(translated_count)
       THEN /\ saves' = saves + 1
            /\ \/ /\ disk' = po                          \* po.save() succeeds
                  /\ printed_skipped' = IF skipped_count > 0 THEN skipped_count ELSE NotPrinted
                  /\ UNCHANGED reported
               \/ /\ disk' \in {disk, <<>>}              \* po.save() raises: file untouched or truncated
                  /\ reported' = OuterHandler("OSError")
                  /\ UNCHANGED printed_skipped
       ELSE /\ printed_skipped' = IF skipped_count > 0 THEN skipped_count ELSE NotPrinted
            /\ UNCHANGED <<saves, disk, reported>>
    /\ UNCHANGED <<po, loaded, potentially_translatable, fi, entries_to_translate, ti,
                   translated_count, skipped_count, calls, results, delays>>

Next ==
    \/ LoadOk
    \/ LoadFail
    \/ FilterStep
    \/ FilterEnd
    \/ TranslateStep
    \/ Finish

Spec == Init /\ [][Next]_vars

-----------------------------------------------------------------------------
(* Vocabulary of the claims, stated independently of the code's own tests *)

Range(s) == { s[k] : k \in 1..Len(s) }

FileNames == {FMain, FReport, FReports, FRepot}

\* the file names that have the letters r-e-p-o-r-t in a row, in any letter case
ReportNames ==
    { f \in FileNames :
        \E i \in 1..Len(f) :
            /\ i + 5 <= Len(f)
            /\ \A j \in 1..6 : Lower(f[i + j - 1]) = Needle[j] }

\* some occurrence of the entry names such a file
MentionsReport(e) ==
    \E k \in 1..Len(e.occurrences) : e.occurrences[k][1] \in ReportNames

CarriesFuzzy(e) == "fuzzy" \in Range(e.flags)

\* the entries the translator is meant to receive
Eligible(e) ==
    /\ e.msgstr = ""
    /\ e.msgid # ""
    /\ ~MentionsReport(e)
    /\ ~CarriesFuzzy(e)

EligibleSeq(cat) == SelectSeq([i \in 1..Len(cat) |-> i], LAMBDA i : Eligible(cat[i]))

\* the load raised (no save was attempted and an error was reported)
LoadFailed == pc = "done" /\ saves = 0 /\ reported # "none"

\* the function ran to its end on a file that loaded
RanToEnd == pc = "done" /\ ~LoadFailed

Succeeded(k) == results[k] = "text"

SomeSuccess == \E k \in 1..Len(results) : Succeeded(k)

SomeFailure == \E k \in 1..Len(results) : ~Succeeded(k)

-----------------------------------------------------------------------------
(* Claims *)

\* C1: an entry whose msgstr is non-empty at load keeps its msgstr and flags
\* through the whole run, whatever the translator does, and is never passed to
\* the translator.
C1_TranslatedUntouched ==
    \A i \in 1..Len(loaded) :
        loaded[i].msgstr # "" =>
            /\ po[i].msgstr = loaded[i].msgstr
            /\ po[i].flags = loaded[i].flags
            /\ i \notin Range(calls)

\* a finished run with an already-translated named entry, one successful call
\* and one failed call
C1_Witness ==
    /\ RanToEnd
    /\ \E i \in 1..Len(loaded) : loaded[i].msgstr # "" /\ loaded[i].msgid # ""
    /\ SomeSuccess
    /\ SomeFailure

\* C2: an entry with an occurrence mentioning 'report' in any letter case, at
\* any position among its occurrences, keeps its msgstr and flags and is never
\* passed to the translator.
C2_ReportUntouched ==
    \A i \in 1..Len(loaded) :
        MentionsReport(loaded[i]) =>
            /\ po[i].msgstr = loaded[i].msgstr
            /\ po[i].flags = loaded[i].flags
            /\ i \notin Range(calls)

\* a finished run in which an otherwise eligible entry has 'Report' (capitalised)
\* as its second occurrence only, and another entry was translated
C2_Witness ==
    /\ RanToEnd
    /\ SomeSuccess
    /\ \E i \in 1..Len(loaded) :
          /\ loaded[i].msgstr = ""
          /\ loaded[i].msgid # ""
          /\ ~CarriesFuzzy(loaded[i])
          /\ Len(loaded[i].occurrences) = 2
          /\ loaded[i].occurrences[2][1] = FReport
          /\ ~Contains(Needle, LowerStr(loaded[i].occurrences[1][1]))

\* C3: an entry carrying 'fuzzy' at load keeps its msgstr, still carries
\* 'fuzzy' at every later point of the run, and is never passed to the
\* translator.
C3_FuzzyUntouched ==
    \A i \in 1..Len(loaded) :
        CarriesFuzzy(loaded[i]) =>
            /\ po[i].msgstr = loaded[i].msgstr
            /\ CarriesFuzzy(po[i])
            /\ po[i].flags = loaded[i].flags
            /\ i \notin Range(calls)

\* a finished run in which an untranslated, named, report-free entry carries
\* 'fuzzy' as its second flag, and another entry was translated
C3_Witness ==
    /\ RanToEnd
    /\ SomeSuccess
    /\ \E i \in 1..Len(loaded) :
          /\ loaded[i].msgstr = ""
          /\ loaded[i].msgid # ""
          /\ ~MentionsReport(loaded[i])
          /\ loaded[i].flags = <<"python-format", "fuzzy">>

\* C4: every entry whose msgstr was set from a successful translation does not
\* carry 'fuzzy'.
C4_TranslatedNotFuzzy ==
    \A k \in 1..Len(calls) :
        Succeeded(k) =>
            /\ po[calls[k]].msgstr = "ar"
            /\ ~CarriesFuzzy(po[calls[k]])

\* a finished run that translated an entry with flags and saved it
C4_Witness ==
    /\ RanToEnd
    /\ saves = 1
    /\ \E k \in 1..Len(calls) :
          /\ Succeeded(k)
          /\ po[calls[k]].flags = <<"python-format">>
          /\ disk = po

\* C5: a call that raises or returns nothing leaves its entry's msgstr empty
\* and is not counted; the loop still calls the translator for every later
\* entry of entries_to_translate; the successful translations are kept, the
\* save is made when there is one and, when it succeeds, the file holds them.
C5_FailureSkipped ==
    /\ Len(results) = Len(calls)
    /\ \A k \in 1..Len(calls) :
          IF Succeeded(k) THEN po[calls[k]].msgstr = "ar" ELSE po[calls[k]].msgstr = ""
    /\ translated_count = Cardinality({k \in 1..Len(results) : Succeeded(k)})
    /\ calls = SubSeq(entries_to_translate, 1, ti - 1)
    /\ pc = "translate" /\ ti <= Len(entries_to_translate) => Len(calls) = ti - 1
    /\ pc = "done" => calls = entries_to_translate
    /\ pc = "done" /\ SomeSuccess => saves = 1
    /\ pc = "done" /\ saves = 1 /\ reported = "none" => disk = po

\* a finished run of three calls: success, failure, success, saved
C5_Witness ==
    /\ pc = "done"
    /\ Len(results) = 3
    /\ Succeeded(1)
    /\ results[2] \in {"raise", "emptytext", "none"}
    /\ Succeeded(3)
    /\ disk = po
    /\ po[calls[1]].msgstr = "ar"
    /\ po[calls[3]].msgstr = "ar"

\* C6: when the load raises, no translation call and no save is made, the error
\* is reported and the function returns; no exception (of class Exception)
\* raised by the load or by the save escapes the function.
C6_ErrorsContained ==
    /\ reported # "escaped"
    /\ LoadFailed =>
          /\ calls = <<>>
          /\ delays = 0
          /\ saves = 0
          /\ po = <<>>
          /\ reported \in {"notfound", "unexpected"}
    /\ reported # "none" => pc = "done"

\* the load raised something other than FileNotFoundError and the function returned
C6_Witness ==
    /\ LoadFailed
    /\ reported = "unexpected"

\* C7: the translator is called exactly once for each entry with empty msgstr,
\* non-empty msgid, no occurrence mentioning 'report' and no 'fuzzy' flag, and
\* for no other entry, in catalog order, each call preceded by one delay, and no
\* call is made before the filter loop has finished.
C7_CallsExactlyEligible ==
    /\ LET eligible == EligibleSeq(loaded)
       IN  /\ Len(calls) <= Len(eligible)
           /\ calls = SubSeq(eligible, 1, Len(calls))
           /\ pc = "done" => calls = eligible
    /\ delays = Len(calls)
    /\ calls # <<>> => pc \in {"translate", "done"} /\ fi > Len(potentially_translatable)
    /\ pc = "filter" /\ fi <= Len(potentially_translatable) => calls = <<>>

\* a finished run with two calls, the second for a later entry, and an entry
\* kept away from the translator only by the letter case of 'Report'
C7_Witness ==
    /\ RanToEnd
    /\ Len(calls) = 2
    /\ calls[1] < calls[2]
    /\ \E i \in 1..Len(loaded) :
          /\ i \notin Range(calls)
          /\ loaded[i].msgstr = ""
          /\ loaded[i].msgid # ""
          /\ ~CarriesFuzzy(loaded[i])
          /\ loaded[i].occurrences = << <<FRepot, "7">>, <<FReport, "12">> >>

\* the entries the claim of C8 says the total counts
SkippedAnywhere ==
    { i \in 1..Len(loaded) :
        \/ loaded[i].msgstr # ""
        \/ /\ loaded[i].msgid # ""
           /\ (MentionsReport(loaded[i]) \/ CarriesFuzzy(loaded[i])) }

\* C8: at the end of a run, skipped_count counts the already-translated entries
\* as well as the fuzzy and report-related ones.
C8_SkippedIncludesInitialFilter ==
    RanToEnd => skipped_count = Cardinality(SkippedAnywhere)

\* C9: po.save() is called at most once, only after the last translation call
\* has finished, and exactly when some entry received a non-empty translation;
\* while no save has been made the file holds what was loaded.
C9_SaveOnceIffTranslated ==
    /\ saves <= 1
    /\ saves = 1 =>
          /\ pc = "done"
          /\ calls = entries_to_translate
          /\ translated_count > 0
    /\ pc = "done" => (saves = 1 <=> SomeSuccess)
    /\ pc = "done" => (saves = 1 <=> translated_count > 0)
    /\ saves = 0 /\ pc \notin {"start"} /\ ~LoadFailed => disk = loaded

\* a finished run in which every call failed and the file was left alone
C9_Witness ==
    /\ RanToEnd
    /\ Len(calls) >= 2
    /\ ~SomeSuccess
    /\ saves = 0
    /\ disk = loaded

\* the entries with empty msgstr and non-empty msgid at load
EmptyNamed == { i \in 1..Len(loaded) : loaded[i].msgstr = "" /\ loaded[i].msgid # "" }

\* the entries whose msgstr went from empty to non-empty in this run
NewlyTranslated == { i \in 1..Len(loaded) : loaded[i].msgstr = "" /\ po[i].msgstr # "" }

\* the part of C10 that does not concern skipped_count
CountersAndFrame ==
    /\ translated_count = Cardinality(NewlyTranslated)
    /\ translated_count <= Len(calls)
    /\ Len(po) = Len(loaded)
    /\ \A i \in 1..Len(loaded) :
          /\ po[i].msgid = loaded[i].msgid
          /\ po[i].occurrences = loaded[i].occurrences
          /\ loaded[i].msgid = "" => po[i] = loaded[i] /\ i \notin Range(calls)

\* C10 as stated: at every point skipped_count + len(entries_to_translate) is
\* the number of entries with empty msgstr and non-empty msgid (taken at load,
\* the reading most favourable to the claim), and the counters and frame hold.
C10_AsStated ==
    /\ skipped_count + Len(entries_to_translate) = Cardinality(EmptyNamed)
    /\ CountersAndFrame

\* C10 amended: while the filter loop runs skipped_count +
\* len(entries_to_translate) is the number of pre-filtered entries examined so
\* far; once it has finished the sum is the number of entries that had empty
\* msgstr and non-empty msgid at load; between loop iterations the counters and
\* frame of the claim hold.
C10_CountersAccount ==
    /\ skipped_count + Len(entries_to_translate) = fi - 1
    /\ Len(potentially_translatable) = Cardinality(EmptyNamed)
    /\ fi <= Len(potentially_translatable) + 1
    /\ pc \in {"translate", "done"} =>
          skipped_count + Len(entries_to_translate) = Cardinality(EmptyNamed)
    /\ CountersAndFrame

\* a finished run with a skipped entry, a translated entry and an untranslated
\* header
C10_Witness ==
    /\ RanToEnd
    /\ skipped_count >= 1
    /\ translated_count >= 1
    /\ \E i \in 1..Len(loaded) : loaded[i].msgid = "" /\ loaded[i].msgstr = ""

====
